---- MODULE Spec2Model ----
(***************************************************************************)
(* Account Registry (AccountStorageProvider) and Transaction Submission    *)
(* Pipeline (useSubmitTxn) of the wallet.                                  *)
(*                                                                         *)
(* The registry is a React hook: its state lives in useState cells, its    *)
(* callbacks close over the values of the render they are called from, and *)
(* every `await` is a point where other tasks run.  An asynchronous        *)
(* callback is modelled as one action for its synchronous prefix (the      *)
(* call) and one action per awaited call, taken when that call settles;    *)
(* the settled call's effect on the store and the code up to the next      *)
(* await form one step.  A call is made through the callbacks of the       *)
(* latest render, and the effect that depends on `accounts` runs with the  *)
(* render that follows setAccounts.                                         *)
(***************************************************************************)
EXTENDS Integers, Sequences, FiniteSets, Bags, TLC

\* ------------------------------------------------------------------ bounds
\* store / network calls that may reject in one run of the registry
MaxFailures == 1
\* calls of the registry callbacks made in one run
MaxCalls == 2
\* payees of one submitPayment call
MaxPayees == 11
\* transactions getAssertData returns for one entity-info update
MaxTxns == 3

None == "none"
Addresses == {"a1", "a2"}
Aliases == {"w1"}
OptAddresses == Addresses \cup {None}

\* accountNetType(address): the net type is a function of the address alone
accountNetType(address) == IF address = "a1" THEN "MAINNET" ELSE "TESTNET"

NoAccount == [address |-> None, alias |-> None, netType |-> None]
MkAccountOnMainnet(alias, address) ==
    [address |-> address, alias |-> alias, netType |-> "MAINNET"]
\* { alias, address, netType: accountNetType(address) }
MkAccount(alias, address) ==
    [address |-> address, alias |-> alias, netType |-> accountNetType(address)]

\* ------------------------------------------ CSAccounts: object keyed by address
\* A JavaScript object enumerates its (non-integer) keys in insertion order;
\* the map is the sequence of its values in that order.
Keys(accs) == {accs[n].address : n \in DOMAIN accs}
HasKey(accs, address) == address \in Keys(accs)
\* { ...accs, [account.address]: account }
Put(accs, account) ==
    IF HasKey(accs, account.address)
    THEN [n \in DOMAIN accs |->
            IF accs[n].address = account.address THEN account ELSE accs[n]]
    ELSE Append(accs, account)
\* delete accs[address]
Delete(accs, address) == SelectSeq(accs, LAMBDA acc : acc.address # address)
\* Object.values(accs)[0], undefined when there is none
FirstValue(accs) == IF accs = <<>> THEN NoAccount ELSE accs[1]

VARIABLES
    \* ---- useState cells of useAccountStorageHook
    accounts,               \* CSAccounts (meaningful when accountsDefined)
    accountsDefined,        \* accounts !== undefined
    currentAccount,
    contacts,
    defaultAccountAddress,
    \* ---- asynchronous tasks
    restorePc,              \* useAsync(restoreAccounts, [])
    effects,                \* in-flight runs of the bootstrap effect
    ops,                    \* in-flight calls of the registry callbacks
    \* ---- collaborators
    remoteAccounts,         \* RemoteMetadataStore
    remoteContacts,
    remoteDefault,
    secureKeys,             \* SecureKeyStore: addresses holding key material
    tags,                   \* routing tags (oneSignalStorage)
    loggerUser,             \* Logger.setUser
    failures,               \* rejected calls so far
    calls,                  \* calls of the callbacks so far
    lastOp,                 \* how the most recently finished call ended
    \* ---- useSubmitTxn: one invocation of a submit* callback
    pKind,                  \* which callback
    pCtx,                   \* what the providers gave the hook at the call
    pPc,                    \* the await it is suspended at, "idle" or "done"
    payments,               \* submitPayment: the payees, named by position
    buildCalls,             \* submitPayment: the chunks handed to transferToken
    completed,              \* submitPayment: chunk indexes in completion order
    txns,                   \* the built transactions
    data,                   \* submitUpdateEntityInfo: what getAssertData returned
    recipientExists,        \* result of connection.getAccountInfo(recipient)
    gateRequests,           \* requests shown by walletSignBottomSheetRef.show
    decision,               \* what show() resolved to
    signCalls,              \* calls of wallet.signAllTransactions
    sent,                   \* sendAndConfirmWithRetry calls, in order
    dispatches,             \* thunks handed to dispatch
    sendFailure,            \* what sendAndConfirmWithRetry rejected with
    pError,                 \* the error the callback threw
    \* ---- the memo of a payment (utils/transaction)
    memoText,               \* the text in the memo field, as code points
    memoEncoded,            \* what encodeMemoString returned for it
    memoDecoded,            \* what decodeMemoString returned for that
    memoPc,                 \* "edit", "encoded" or "decoded"
    \* ---- the component holding the registry's callbacks
    closure                 \* the accounts map its upsertAccount closes over

rvars == <<accounts, accountsDefined, currentAccount, contacts,
           defaultAccountAddress, restorePc, effects, ops,
           remoteAccounts, remoteContacts, remoteDefault, secureKeys, tags,
           loggerUser, failures, calls, lastOp>>

memory == <<accounts, accountsDefined, currentAccount, contacts,
            defaultAccountAddress>>
stores == <<remoteAccounts, remoteContacts, remoteDefault, secureKeys, tags>>

pvars == <<pKind, pCtx, pPc, payments, buildCalls, completed, txns, data,
           recipientExists, gateRequests, decision, signCalls, sent, dispatches,
           sendFailure, pError>>

evars == <<memoText, memoEncoded, memoDecoded, memoPc, closure>>

vars == <<rvars, pvars, evars>>

\* ------------------------------------------------------------ call records
IdleOp == [kind |-> "idle", pc |-> "idle", account |-> NoAccount,
           secure |-> FALSE, next |-> <<>>, present |-> FALSE,
           reDerive |-> FALSE]
NoOp == [kind |-> "none", address |-> None, result |-> "none",
         reDerive |-> FALSE, repeats |-> FALSE]

OpSlots == 1..MaxCalls
FreeOps == {i \in OpSlots : ops[i].kind = "idle"}
\* a callback may be called: a slot is free and the run has calls left
MayCall == FreeOps # {} /\ calls < MaxCalls
\* the slot a new call takes
NewOp == CHOOSE i \in FreeOps : \A k \in FreeOps : i <= k

MayFail == failures < MaxFailures

\* the closure's `accounts || {}`
HookAccounts == IF accountsDefined THEN accounts ELSE <<>>

\* the call follows a completed call of the same callback for the same address
Repeats(op) ==
    /\ lastOp.kind = op.kind
    /\ lastOp.result = "ok"
    /\ lastOp.address = op.account.address

Returned(i) ==
    /\ ops' = [ops EXCEPT ![i] = IdleOp]
    /\ lastOp' = [kind |-> ops[i].kind, address |-> ops[i].account.address,
                  result |-> "ok", reDerive |-> ops[i].reDerive,
                  repeats |-> Repeats(ops[i])]

\* The bootstrap effect, run again whenever `accounts` changes: it returns at
\* once on an empty map and otherwise calls getCloudDefaultAccountAddress().
\* `effects` is the bag of its runs that are suspended at an await.
EffectRun(pc, first) == [pc |-> pc, first |-> first]
BootstrapStarted(accs) ==
    IF accs = <<>>
    THEN effects
    ELSE effects (+) SetToBag({EffectRun("getCloudDefaultAccountAddress",
                                         FirstValue(accs).address)})

\* setAccounts(v), and the render it causes
SetAccounts(v) ==
    /\ accounts' = v
    /\ accountsDefined' = TRUE
    /\ effects' = BootstrapStarted(v)

\* ------------------------------------------------------------------- Init
InitAccountMaps ==
    { <<>>,
      <<MkAccount("w1", "a1"), MkAccount("w1", "a2")>> }
InitContactLists == { <<MkAccount("w1", "a2")>> }

RegistryInit ==
    /\ accounts = <<>>
    /\ accountsDefined = FALSE
    /\ currentAccount = NoAccount
    /\ contacts = <<>>
    /\ defaultAccountAddress = None
    /\ restorePc = "restoreAccounts"
    /\ effects = EmptyBag
    /\ ops = [i \in OpSlots |-> IdleOp]
    /\ remoteAccounts \in InitAccountMaps
    /\ remoteContacts \in InitContactLists
    /\ remoteDefault \in Keys(remoteAccounts) \cup {None}
    /\ secureKeys = Keys(remoteAccounts)
    /\ tags = Keys(remoteAccounts)
    /\ loggerUser = None
    /\ failures = 0
    /\ calls = 0
    /\ lastOp = NoOp

\* ---------------------------------------------------------------- restore
\* restoreAccounts(): the snapshot the remote store holds
RestoredCurrent(accs) == FirstValue(accs)

RestoreResolved ==
    /\ restorePc = "restoreAccounts"
    /\ restorePc' = "done"
    /\ SetAccounts(remoteAccounts)
    /\ currentAccount' = RestoredCurrent(remoteAccounts)
    /\ contacts' = remoteContacts
    /\ UNCHANGED <<evars, pvars, calls, defaultAccountAddress, ops, stores,
                   loggerUser, failures, lastOp>>

RestoreRejected ==
    /\ restorePc = "restoreAccounts"
    /\ MayFail
    /\ restorePc' = "failed"
    /\ failures' = failures + 1
    /\ UNCHANGED <<evars, pvars, calls, memory, effects, ops, stores,
                   loggerUser, lastOp>>

\* ------------------------------------------------- default bootstrap effect
\* setDefaultAccountAddress(address); Logger.setUser(address)
SetDefault(address) ==
    /\ defaultAccountAddress' = address
    /\ loggerUser' = address

Finished(run) == effects (-) SetToBag({run})

EffectGetResolved(run) ==
    /\ BagIn(run, effects)
    /\ run.pc = "getCloudDefaultAccountAddress"
    /\ IF remoteDefault = None
       THEN /\ effects' = Finished(run) (+)
                    SetToBag({EffectRun("setCloudDefaultAccountAddress", run.first)})
            /\ UNCHANGED <<defaultAccountAddress, loggerUser>>
       ELSE /\ SetDefault(remoteDefault)
            /\ effects' = Finished(run)
    /\ UNCHANGED <<evars, pvars, calls, accounts, accountsDefined, currentAccount, contacts,
                   restorePc, ops, stores, failures, lastOp>>

EffectSetResolved(run) ==
    /\ BagIn(run, effects)
    /\ run.pc = "setCloudDefaultAccountAddress"
    /\ remoteDefault' = run.first
    /\ SetDefault(run.first)
    /\ effects' = Finished(run)
    /\ UNCHANGED <<evars, pvars, calls, accounts, accountsDefined, currentAccount, contacts,
                   restorePc, ops, remoteAccounts, remoteContacts, secureKeys,
                   tags, failures, lastOp>>

\* useAsync keeps the rejection in its own state: nothing else happens
EffectRejected(run) ==
    /\ BagIn(run, effects)
    /\ MayFail
    /\ failures' = failures + 1
    /\ effects' = Finished(run)
    /\ UNCHANGED <<evars, pvars, calls, memory, restorePc, ops, stores, loggerUser, lastOp>>

\* ---------------------------------------------------------- upsertAccount
\* Synchronous prefix: the next map is built from the closure's `accounts`,
\* put in state, and updateCloudAccounts(nextAccounts) is called.
UpsertedLater(nextAccounts, nextAccount) ==
    UNCHANGED <<accounts, accountsDefined, effects, currentAccount>>

\* setAccounts(nextAccounts); setCurrentAccount(nextAccount)
Upserted(nextAccounts, nextAccount) ==
    /\ SetAccounts(nextAccounts)
    /\ currentAccount' = nextAccount

\* `snapshot` is the `accounts || {}` of the render the callback was made in.
UpsertAccountFrom(snapshot, alias, address, secure) ==
    /\ MayCall
    /\ calls' = calls + 1
    /\ LET nextAccount == MkAccount(alias, address)
           nextAccounts == Put(snapshot, nextAccount)
       IN /\ Upserted(nextAccounts, nextAccount)
          /\ ops' = [ops EXCEPT ![NewOp] =
                       [kind |-> "upsertAccount", pc |-> "updateCloudAccounts",
                        account |-> nextAccount, secure |-> secure,
                        next |-> nextAccounts, present |-> FALSE,
                        reDerive |-> FALSE]]
    /\ UNCHANGED <<evars, pvars, contacts, defaultAccountAddress, restorePc,
                   stores, loggerUser, failures, lastOp>>

\* the callback of the latest render is the one called
UpsertAccountCall(alias, address, secure) ==
    UpsertAccountFrom(HookAccounts, alias, address, secure)

UpsertCloudResolved(i) ==
    /\ ops[i].kind = "upsertAccount" /\ ops[i].pc = "updateCloudAccounts"
    /\ remoteAccounts' = ops[i].next
    /\ ops' = [ops EXCEPT ![i].pc = "tagAccount"]
    /\ UNCHANGED <<evars, pvars, calls, memory, restorePc, effects,
                   remoteContacts, remoteDefault, secureKeys, tags, loggerUser,
                   failures, lastOp>>

UpsertTagResolved(i) ==
    /\ ops[i].kind = "upsertAccount" /\ ops[i].pc = "tagAccount"
    /\ tags' = tags \cup {ops[i].account.address}
    /\ IF ops[i].secure
       THEN /\ ops' = [ops EXCEPT ![i].pc = "storeSecureAccount"]
            /\ UNCHANGED lastOp
       ELSE Returned(i)
    /\ UNCHANGED <<evars, pvars, calls, memory, restorePc, effects,
                   remoteAccounts, remoteContacts, remoteDefault, secureKeys,
                   loggerUser, failures>>

UpsertStoreResolved(i) ==
    /\ ops[i].kind = "upsertAccount" /\ ops[i].pc = "storeSecureAccount"
    /\ secureKeys' = secureKeys \cup {ops[i].account.address}
    /\ Returned(i)
    /\ UNCHANGED <<evars, pvars, calls, memory, restorePc, effects,
                   remoteAccounts, remoteContacts, remoteDefault, tags,
                   loggerUser, failures>>

\* -------------------------------------------- updateDefaultAccountAddress
DefaultWrittenSilently(address) ==
    /\ remoteDefault' = address
    /\ defaultAccountAddress' = address
    /\ UNCHANGED loggerUser

\* await setCloudDefaultAccountAddress(address) settled:
\* setDefaultAccountAddress(address); Logger.setUser(address)
DefaultWritten(address) ==
    /\ remoteDefault' = address
    /\ SetDefault(address)

UpdateDefaultCall(address) ==
    /\ MayCall
    /\ calls' = calls + 1
    /\ ops' = [ops EXCEPT ![NewOp] =
                 [kind |-> "updateDefaultAccountAddress",
                  pc |-> "setCloudDefaultAccountAddress",
                  account |-> [NoAccount EXCEPT !.address = address],
                  secure |-> FALSE, next |-> <<>>, present |-> FALSE,
                  reDerive |-> FALSE]]
    /\ UNCHANGED <<evars, pvars, memory, restorePc, effects, stores,
                   loggerUser, failures, lastOp>>

UpdateDefaultResolved(i) ==
    /\ ops[i].kind = "updateDefaultAccountAddress"
    /\ ops[i].pc = "setCloudDefaultAccountAddress"
    /\ DefaultWritten(ops[i].account.address)
    /\ Returned(i)
    /\ UNCHANGED <<evars, pvars, calls, accounts, accountsDefined, currentAccount, contacts,
                   restorePc, effects, remoteAccounts,
                   remoteContacts, secureKeys, tags, failures>>

\* ------------------------------------------------- signOut(account): single
\* the map signOut writes: the closure's map without the account when it is
\* there, and {} otherwise
NewAccounts(accs, account) ==
    IF HasKey(accs, account.address) THEN Delete(accs, account.address) ELSE <<>>

\* newCurrentAccount?.address, the argument of updateDefaultAccountAddress
NewDefaultKept(newAccounts, account) == account.address
NewDefault(newAccounts, account) == FirstValue(newAccounts).address

SignOutCall(account) ==
    /\ MayCall
    /\ calls' = calls + 1
    /\ account.address # None
    /\ ops' = [ops EXCEPT ![NewOp] =
                 [kind |-> "signOut", pc |-> "removeAccountTag",
                  account |-> account, secure |-> FALSE,
                  next |-> HookAccounts,
                  present |-> HasKey(HookAccounts, account.address),
                  reDerive |-> (account.address = defaultAccountAddress)]]
    /\ UNCHANGED <<evars, pvars, memory, restorePc, effects, stores,
                   loggerUser, failures, lastOp>>

SignOutTagResolved(i) ==
    /\ ops[i].kind = "signOut" /\ ops[i].pc = "removeAccountTag"
    /\ tags' = tags \ {ops[i].account.address}
    /\ ops' = [ops EXCEPT ![i].pc = "deleteSecureAccount"]
    /\ UNCHANGED <<evars, pvars, calls, memory, restorePc, effects,
                   remoteAccounts, remoteContacts, remoteDefault, secureKeys,
                   loggerUser, failures, lastOp>>

SignOutDeleteResolved(i) ==
    /\ ops[i].kind = "signOut" /\ ops[i].pc = "deleteSecureAccount"
    /\ secureKeys' = secureKeys \ {ops[i].account.address}
    /\ ops' = [ops EXCEPT ![i].pc = "updateCloudAccounts",
                          ![i].next = NewAccounts(ops[i].next, ops[i].account)]
    /\ UNCHANGED <<evars, pvars, calls, memory, restorePc, effects,
                   remoteAccounts, remoteContacts, remoteDefault, tags,
                   loggerUser, failures, lastOp>>

SignOutCloudResolved(i) ==
    /\ ops[i].kind = "signOut" /\ ops[i].pc = "updateCloudAccounts"
    /\ remoteAccounts' = ops[i].next
    /\ SetAccounts(ops[i].next)
    /\ currentAccount' = FirstValue(ops[i].next)
    /\ IF ops[i].reDerive
       THEN /\ ops' = [ops EXCEPT ![i].pc = "setCloudDefaultAccountAddress"]
            /\ UNCHANGED lastOp
       ELSE Returned(i)
    /\ UNCHANGED <<evars, pvars, calls, contacts, defaultAccountAddress, restorePc,
                   remoteContacts, remoteDefault, secureKeys, tags, loggerUser,
                   failures>>

SignOutDefaultResolved(i) ==
    /\ ops[i].kind = "signOut" /\ ops[i].pc = "setCloudDefaultAccountAddress"
    /\ DefaultWritten(NewDefault(ops[i].next, ops[i].account))
    /\ Returned(i)
    /\ UNCHANGED <<evars, pvars, calls, accounts, accountsDefined, currentAccount, contacts,
                   restorePc, effects, remoteAccounts,
                   remoteContacts, secureKeys, tags, failures>>

\* An awaited call of upsertAccount, updateDefaultAccountAddress or single
\* signOut rejects: none of them catches, so the callback throws there.
Swallowed(pc) == "ok"
\* how the call ends: its promise rejects with the rejection of `pc`
Thrown(pc) == pc

AwaitRejected(i) ==
    /\ ops[i].kind \in {"upsertAccount", "updateDefaultAccountAddress", "signOut",
                       "addContact", "editContact", "deleteContact"}
    /\ MayFail
    /\ failures' = failures + 1
    /\ ops' = [ops EXCEPT ![i] = IdleOp]
    /\ lastOp' = [kind |-> ops[i].kind, address |-> ops[i].account.address,
                  result |-> Thrown(ops[i].pc), reDerive |-> ops[i].reDerive,
                  repeats |-> Repeats(ops[i])]
    /\ UNCHANGED <<evars, pvars, calls, memory, restorePc, effects, stores,
                   loggerUser>>

\* --------------------------------------------------- signOut(): full wipe
\* The calls handed to Promise.all, all issued when the array is built.
SubCalls(keys) ==
    ({"deleteItemAsync", "removeAccountTag", "signoutSecureStore"} \X keys)
        \cup {<<"signoutCloudStorage", None>>,
              <<"updateDefaultAccountAddress", None>>}

SignOutAllCall ==
    /\ MayCall
    /\ calls' = calls + 1
    /\ ops' = [ops EXCEPT ![NewOp] =
                 [kind |-> "signOutAll", pc |-> "Promise.all",
                  account |-> NoAccount, secure |-> FALSE,
                  next |-> HookAccounts, present |-> FALSE,
                  reDerive |-> FALSE]]
    /\ UNCHANGED <<evars, pvars, memory, restorePc, effects, stores,
                   loggerUser, failures, lastOp>>

\* what follows `await Promise.all([...])` when the calls in `rejected` failed
ClearsMemory(rejected) == rejected = {}

TakesEffectIfNoneFails(call, rejected) == rejected = {}
\* every call of the array was issued: whether it takes effect is its own matter
TakesEffect(call, rejected) == call \notin rejected

\* Every call settles; the ones in `rejected` fail, the others take effect.
\* Promise.all rejects when one of them does, and the three setters after it
\* run only when it resolves.
SignOutAllSettled(i) ==
    /\ ops[i].kind = "signOutAll" /\ ops[i].pc = "Promise.all"
    /\ \E rejected \in SUBSET SubCalls(Keys(ops[i].next)) :
       LET keys == Keys(ops[i].next)
           done(call) == {k \in keys : TakesEffect(<<call, k>>, rejected)}
           cloudOut == TakesEffect(<<"signoutCloudStorage", None>>, rejected)
           defaultOut ==
               TakesEffect(<<"updateDefaultAccountAddress", None>>, rejected)
       IN /\ failures + Cardinality(rejected) <= MaxFailures
          /\ failures' = failures + Cardinality(rejected)
          /\ secureKeys' = (secureKeys \ done("deleteItemAsync"))
                               \ done("signoutSecureStore")
          /\ tags' = tags \ done("removeAccountTag")
          /\ remoteAccounts' = IF cloudOut THEN <<>> ELSE remoteAccounts
          /\ remoteContacts' = IF cloudOut THEN <<>> ELSE remoteContacts
          /\ remoteDefault' = IF cloudOut \/ defaultOut THEN None ELSE remoteDefault
          /\ defaultAccountAddress' =
                IF defaultOut THEN None ELSE defaultAccountAddress
          /\ loggerUser' = IF defaultOut THEN None ELSE loggerUser
          /\ IF ClearsMemory(rejected)
             THEN /\ SetAccounts(<<>>)
                  /\ contacts' = <<>>
                  /\ currentAccount' = NoAccount
             ELSE UNCHANGED <<accounts, accountsDefined, effects,
                              contacts, currentAccount>>
          /\ ops' = [ops EXCEPT ![i] = IdleOp]
          /\ lastOp' = [kind |-> "signOutAll", address |-> None,
                        result |-> IF rejected = {} THEN "ok" ELSE "Promise.all",
                        reDerive |-> FALSE, repeats |-> Repeats(ops[i])]
    /\ UNCHANGED <<evars, pvars, calls, restorePc>>

\* ----------------------------------- addContact, editContact, deleteContact
ContactAliases == {"w1", "w2"}
\* a CSAccount given as a contact
Contacts == {[address |-> address, alias |-> alias,
              netType |-> accountNetType(address)] :
                address \in Addresses, alias \in ContactAliases}

Unfiltered(list, address) == list
\* contacts.filter((c) => c.address !== address)
Filtered(list, address) == SelectSeq(list, LAMBDA c : c.address # address)

\* setContacts(nextContacts); return updateCloudContacts(nextContacts)
ContactsCall(kind, account, nextContacts) ==
    /\ MayCall
    /\ calls' = calls + 1
    /\ contacts' = nextContacts
    /\ ops' = [ops EXCEPT ![NewOp] =
                 [kind |-> kind, pc |-> "updateCloudContacts",
                  account |-> account, secure |-> FALSE,
                  next |-> nextContacts, present |-> FALSE,
                  reDerive |-> FALSE]]
    /\ UNCHANGED <<evars, pvars, accounts, accountsDefined, currentAccount,
                   defaultAccountAddress, restorePc, effects, stores,
                   loggerUser, failures, lastOp>>

AddContactCall(account) ==
    ContactsCall("addContact", account,
                 Append(Filtered(contacts, account.address), account))

EditContactCall(oldAddress, updatedAccount) ==
    ContactsCall("editContact", updatedAccount,
                 Append(Filtered(contacts, oldAddress), updatedAccount))

DeleteContactCall(address) ==
    ContactsCall("deleteContact", [NoAccount EXCEPT !.address = address],
                 Filtered(contacts, address))

\* updateCloudContacts(nextContacts) resolves
ContactsResolved(i) ==
    /\ ops[i].kind \in {"addContact", "editContact", "deleteContact"}
    /\ ops[i].pc = "updateCloudContacts"
    /\ remoteContacts' = ops[i].next
    /\ Returned(i)
    /\ UNCHANGED <<evars, pvars, calls, memory, restorePc, effects, remoteAccounts,
                   remoteDefault, secureKeys, tags, loggerUser, failures>>

\* ------------------------------------------------------------ registry Next
\* a callback is called
RegistryCall ==
    \/ \E alias \in Aliases, address \in Addresses, secure \in BOOLEAN :
          UpsertAccountCall(alias, address, secure)
    \/ \E address \in OptAddresses : UpdateDefaultCall(address)
    \/ \E alias \in Aliases, address \in Addresses :
          SignOutCall(MkAccount(alias, address))
    \/ SignOutAllCall

\* an awaited call settles and the task that awaits it runs on
RegistryStep ==
    \/ RestoreResolved
    \/ RestoreRejected
    \/ \E run \in BagToSet(effects) : EffectGetResolved(run)
    \/ \E run \in BagToSet(effects) : EffectSetResolved(run)
    \/ \E run \in BagToSet(effects) : EffectRejected(run)
    \/ \E i \in OpSlots : UpsertCloudResolved(i)
    \/ \E i \in OpSlots : UpsertTagResolved(i)
    \/ \E i \in OpSlots : UpsertStoreResolved(i)
    \/ \E i \in OpSlots : UpdateDefaultResolved(i)
    \/ \E i \in OpSlots : SignOutTagResolved(i)
    \/ \E i \in OpSlots : SignOutDeleteResolved(i)
    \/ \E i \in OpSlots : SignOutCloudResolved(i)
    \/ \E i \in OpSlots : SignOutDefaultResolved(i)
    \/ \E i \in OpSlots : AwaitRejected(i)
    \/ \E i \in OpSlots : SignOutAllSettled(i)

NoCallInFlight == \A i \in OpSlots : ops[i].kind = "idle"

\* =================================================================== pipeline
ChunkSize == 5

\* chunks(array, size) of @helium/spl-utils: consecutive slices of `size`
CeilDiv(n, d) == (n + d - 1) \div d
Slice(array, from, to) == [k \in 1..(to - from + 1) |-> array[from + k - 1]]
Min(a, b) == IF a < b THEN a ELSE b
chunks(array, size) ==
    [c \in 1..CeilDiv(Len(array), size) |->
        Slice(array, (c - 1) * size + 1, Min(c * size, Len(array)))]

\* tx.serialize(...) / Buffer.from(...): the bytes of a transaction
Serialize(tx) == [bytes |-> tx]
\* Transaction.from(bytes)
Deserialize(ser) == ser.bytes
\* txns.map((tx) => tx.serialize(...)), serializedTxs.map((ser) => Transaction.from(ser))
SerializeAll(seq) == [k \in DOMAIN seq |-> Serialize(seq[k])]
DeserializeAll(seq) == [k \in DOMAIN seq |-> Deserialize(seq[k])]

Kinds == {"Payment", "Collectable", "TreasurySwap", "AnchorTxn", "ClaimRewards",
          "ClaimAllRewards", "MintDataCredits", "DelegateDataCredits",
          "UpdateEntityInfo"}

\* what useAccountStorage / useSolana / useWalletSign give the hook
Contexts ==
    {c \in [currentAccount : BOOLEAN, solanaAddress : BOOLEAN,
            anchorProvider : BOOLEAN, walletSignBottomSheetRef : BOOLEAN] :
        c.solanaAddress => c.currentAccount}

\* ---- errors
NoFailure == [text |-> "none", ie |-> "absent", at |-> 0]
Error(type) == [type |-> type, payload |-> NoFailure]
NoError == Error("none")
AccountError == Error("errors.account")
UserRejected == Error("User rejected transaction")
\* what sendAndConfirmWithRetry rejects with for transaction `at`: the text
\* e.toString() holds and the InstructionError field of e
Failures(at) ==
    [text : {"none", "Insufficient Balance", "\"Custom\":1"},
     ie : {"absent", "Custom1", "other"},
     at : {at}]

\* the guard every callback starts with: the error it throws, or NoError
Precondition(kind, ctx) ==
    CASE kind \in {"Payment", "Collectable"} ->
            IF ~ctx.solanaAddress \/ ~ctx.anchorProvider
                  \/ ~ctx.walletSignBottomSheetRef
            THEN AccountError ELSE NoError
      [] kind = "AnchorTxn" ->
            IF ~ctx.anchorProvider \/ ~ctx.walletSignBottomSheetRef
            THEN AccountError ELSE NoError
      [] kind = "ClaimRewards" ->
            IF ~ctx.anchorProvider THEN AccountError
            ELSE IF ~ctx.currentAccount THEN AccountError
            ELSE IF ~ctx.walletSignBottomSheetRef
                 THEN Error("No wallet sign bottom sheet ref")
            ELSE NoError
      [] OTHER ->
            IF ~ctx.currentAccount \/ ~ctx.anchorProvider
                  \/ ~ctx.walletSignBottomSheetRef
            THEN AccountError ELSE NoError

\* the thunk each callback dispatches
Thunk(kind) ==
    CASE kind = "Payment" -> "makePayment"
      [] kind = "Collectable" -> "makeCollectablePayment"
      [] kind = "TreasurySwap" -> "sendTreasurySwap"
      [] kind = "AnchorTxn" -> "sendAnchorTxn"
      [] kind = "ClaimRewards" -> "claimRewards"
      [] kind = "ClaimAllRewards" -> "claimAllRewards"
      [] kind = "MintDataCredits" -> "sendMintDataCredits"
      [] kind = "DelegateDataCredits" -> "sendDelegateDataCredits"
      [] OTHER -> "none"

\* the callbacks that await a lookup, one builder call, or dispatch
LooksUp == {"TreasurySwap", "MintDataCredits"}
BuildsOne == {"Collectable", "TreasurySwap", "MintDataCredits",
              "DelegateDataCredits"}
AwaitsDispatch == {"MintDataCredits", "DelegateDataCredits"}

\* everything present: a signed-in wallet with its providers mounted
FullContext == [currentAccount |-> TRUE, solanaAddress |-> TRUE,
                anchorProvider |-> TRUE, walletSignBottomSheetRef |-> TRUE]

NoData == [solanaTransactions |-> <<>>, defined |-> FALSE, isFree |-> FALSE]

PipelineIdle ==
    /\ pKind = "none"
    /\ pCtx = FullContext
    /\ pPc = "idle"
    /\ payments = <<>>
    /\ buildCalls = <<>>
    /\ completed = <<>>
    /\ txns = <<>>
    /\ data = NoData
    /\ recipientExists = TRUE
    /\ gateRequests = <<>>
    /\ decision = "none"
    /\ signCalls = 0
    /\ sent = <<>>
    /\ dispatches = <<>>
    /\ sendFailure = NoFailure
    /\ pError = NoError

\* walletSignBottomSheetRef.show({ warning, serializedTxs })
Request(warning, built) ==
    [warning |-> warning, serializedTxs |-> SerializeAll(built)]

WarningNever(kind, exists) == ""
\* warning: recipientExists ? '' : t('transactions.recipientNonExistent')
Warning(kind, exists) ==
    IF kind \in LooksUp /\ ~exists THEN "transactions.recipientNonExistent" ELSE ""

\* dispatch(thunk({...}))
Dispatched(kind, built) == [thunk |-> Thunk(kind), txns |-> built]

\* A submit* callback is called: its guard, and its code up to the first await.
Submit(kind, ctx, payees) ==
    /\ pPc \in {"idle", "done"}
    /\ pKind' = kind
    /\ pCtx' = ctx
    /\ payments' = IF kind = "Payment" THEN payees ELSE <<>>
    /\ completed' = <<>>
    /\ data' = NoData
    /\ recipientExists' = TRUE
    /\ decision' = "none"
    /\ signCalls' = 0
    /\ sent' = <<>>
    /\ sendFailure' = NoFailure
    /\ pError' = Precondition(kind, ctx)
    /\ IF Precondition(kind, ctx) # NoError
       THEN /\ pPc' = "done"
            /\ buildCalls' = <<>> /\ txns' = <<>>
            /\ gateRequests' = <<>> /\ dispatches' = <<>>
       ELSE CASE kind = "Payment" ->
                  /\ pPc' = "transferToken"
                  /\ buildCalls' = chunks(payees, ChunkSize)
                  /\ txns' = <<>> /\ gateRequests' = <<>> /\ dispatches' = <<>>
              [] kind \in LooksUp ->
                  /\ pPc' = "getAccountInfo"
                  /\ buildCalls' = <<>> /\ txns' = <<>>
                  /\ gateRequests' = <<>> /\ dispatches' = <<>>
              [] kind \in BuildsOne \ LooksUp ->
                  /\ pPc' = "build"
                  /\ buildCalls' = <<>> /\ txns' = <<>>
                  /\ gateRequests' = <<>> /\ dispatches' = <<>>
              [] kind \in {"AnchorTxn", "ClaimRewards"} ->
                  /\ pPc' = "show"
                  /\ buildCalls' = <<>>
                  /\ txns' = <<kind>>
                  /\ gateRequests' = <<Request("", <<kind>>)>>
                  /\ dispatches' = <<>>
              [] kind = "ClaimAllRewards" ->
                  /\ pPc' = "done"
                  /\ buildCalls' = <<>> /\ txns' = <<>> /\ gateRequests' = <<>>
                  /\ dispatches' = <<Dispatched(kind, <<>>)>>
              [] OTHER ->
                  /\ pPc' = "getAssertData"
                  /\ buildCalls' = <<>> /\ txns' = <<>>
                  /\ gateRequests' = <<>> /\ dispatches' = <<>>
    /\ UNCHANGED <<rvars, evars>>

\* ---- submitPayment: Promise.all over the chunk builds
\* solUtils.transferToken(..., p, ...) for chunk c resolves
TransferTokenResolved(c) ==
    /\ pPc = "transferToken"
    /\ c \in DOMAIN buildCalls
    /\ \A k \in 1..Len(completed) : completed[k] # c
    /\ completed' = Append(completed, c)
    /\ UNCHANGED <<sendFailure, pCtx, pKind, pPc, payments, buildCalls, txns, data,
                   recipientExists, gateRequests, decision, signCalls, sent,
                   dispatches, pError, rvars, evars>>

\* the array Promise.all resolves to: one result per call, at the call's index
CollectedByCompletion(built, order) == [k \in DOMAIN built |-> built[order[k]]]
Collected(built, order) == [k \in DOMAIN built |-> built[k]]

\* every chunk is built: Promise.all resolves and the request is shown
TransferTokensJoined ==
    /\ pPc = "transferToken"
    /\ Len(completed) = Len(buildCalls)
    /\ txns' = Collected(buildCalls, completed)
    /\ gateRequests' = <<Request("", txns')>>
    /\ pPc' = "show"
    /\ UNCHANGED <<sendFailure, pCtx, pKind, payments, buildCalls, completed, data,
                   recipientExists, decision, signCalls, sent, dispatches,
                   pError, rvars, evars>>

\* ---- one lookup, one builder call
GetAccountInfoResolved(exists) ==
    /\ pPc = "getAccountInfo"
    /\ recipientExists' = exists
    /\ pPc' = "build"
    /\ UNCHANGED <<sendFailure, pCtx, pKind, payments, buildCalls, completed, txns, data,
                   gateRequests, decision, signCalls, sent, dispatches, pError,
                   rvars, evars>>

BuildResolved ==
    /\ pPc = "build"
    /\ txns' = <<pKind>>
    /\ gateRequests' = <<Request(Warning(pKind, recipientExists), txns')>>
    /\ pPc' = "show"
    /\ UNCHANGED <<sendFailure, pCtx, pKind, payments, buildCalls, completed, data,
                   recipientExists, decision, signCalls, sent, dispatches,
                   pError, rvars, evars>>

\* ---- submitUpdateEntityInfo
GetAssertDataResolved(n, defined, isFree) ==
    /\ pPc = "getAssertData"
    /\ data' = [solanaTransactions |-> [k \in 1..n |-> k], defined |-> defined,
                isFree |-> isFree]
    /\ txns' = data'.solanaTransactions
    /\ gateRequests' = <<Request("", txns')>>
    /\ pPc' = "show"
    /\ UNCHANGED <<sendFailure, pCtx, pKind, payments, buildCalls, completed,
                   recipientExists, decision, signCalls, sent, dispatches,
                   pError, rvars, evars>>

Suspended(pc) == "suspended"
\* a throw inside the async callback rejects its promise: the invocation,
\* suspended at `pc`, is over
AfterThrow(pc) == "done"

\* a builder call, a lookup, getAssertData or signAllTransactions rejects:
\* nothing catches it
CallRejected ==
    /\ pPc \in {"transferToken", "getAccountInfo", "build", "getAssertData",
                "signAllTransactions"}
    /\ pError' = Error(pPc)
    /\ pPc' = AfterThrow(pPc)
    /\ UNCHANGED <<sendFailure, pCtx, pKind, payments, buildCalls, completed, txns, data,
                   recipientExists, gateRequests, decision, signCalls, sent,
                   dispatches, rvars, evars>>

\* ---- the Approval Gate resolves
\* `if (!decision) throw`: whether the callback goes on after show()
ProceedsAlways(approved) == TRUE
Proceeds(approved) == approved

ShowResolved(approved) ==
    /\ pPc = "show"
    /\ decision' = IF approved THEN "approved" ELSE "rejected"
    /\ IF ~Proceeds(approved)
       THEN /\ pError' = UserRejected
            /\ pPc' = AfterThrow(pPc)
            /\ UNCHANGED <<dispatches, signCalls>>
       ELSE IF pKind = "UpdateEntityInfo"
       THEN /\ pPc' = IF data.defined THEN "signAllTransactions" ELSE "done"
            /\ signCalls' = IF data.defined THEN signCalls + 1 ELSE signCalls
            /\ UNCHANGED <<dispatches, pError>>
       ELSE /\ dispatches' = Append(dispatches, Dispatched(pKind, txns))
            /\ pPc' = IF pKind \in AwaitsDispatch THEN "dispatch" ELSE "done"
            /\ UNCHANGED <<signCalls, pError>>
    /\ UNCHANGED <<sendFailure, pCtx, pKind, payments, buildCalls, completed, txns, data,
                   recipientExists, gateRequests, sent, rvars, evars>>

\* `await dispatch(...)` resolves
DispatchSettled ==
    /\ pPc = "dispatch"
    /\ pPc' = "done"
    /\ UNCHANGED <<sendFailure, pCtx, pKind, payments, buildCalls, completed, txns, data,
                   recipientExists, gateRequests, decision, signCalls, sent,
                   dispatches, pError, rvars, evars>>

\* ---- submitUpdateEntityInfo: sign, then send one by one
SignedTxns == DeserializeAll(gateRequests[1].serializedTxs)

AllSends(sentSoFar, signed) == signed
\* one iteration of `for (const txn of signedTxns || [])`: the next
\* transaction is handed to sendAndConfirmWithRetry, which is awaited
NextSend(sentSoFar, signed) == Append(sentSoFar, signed[Len(sentSoFar) + 1])

SignAllTransactionsResolved ==
    /\ pPc = "signAllTransactions"
    /\ IF SignedTxns = <<>>
       THEN pPc' = "done" /\ UNCHANGED sent
       ELSE pPc' = "sendAndConfirmWithRetry" /\ sent' = NextSend(<<>>, SignedTxns)
    /\ UNCHANGED <<sendFailure, pCtx, pKind, payments, buildCalls, completed, txns, data,
                   recipientExists, gateRequests, decision, signCalls,
                   dispatches, pError, rvars, evars>>

\* the sends made once one has failed: the throw leaves the loop, so the
\* ones made so far
SentAfterFailure(sentSoFar, signed) == sentSoFar

SendResolved ==
    /\ pPc = "sendAndConfirmWithRetry"
    /\ IF Len(sent) < Len(SignedTxns)
       THEN sent' = NextSend(sent, SignedTxns) /\ UNCHANGED pPc
       ELSE pPc' = "done" /\ UNCHANGED sent
    /\ UNCHANGED <<sendFailure, pCtx, pKind, payments, buildCalls, completed, txns, data,
                   recipientExists, gateRequests, decision, signCalls,
                   dispatches, pError, rvars, evars>>

\* the catch block of submitUpdateEntityInfo: the error it throws for e.
\* The third operand of its first test reads e.InstructionError[1].Custom,
\* which throws a TypeError when e has no InstructionError.
Rethrown(e) == [type |-> "rethrown", payload |-> e]
RewrittenForUser(isFree) ==
    Error("Insufficient balance of either HNT, Data Credits, or Sol to assert location")
Rewritten(isFree) ==
    IF isFree
    THEN Error("Manufacturer does not have enough SOL or Data Credits to assert location")
    ELSE Error("Insufficient balance of either HNT, Data Credits, or Sol to assert location")
Classify(e, isFree) ==
    IF e.text = "Insufficient Balance" THEN Rewritten(isFree)
    ELSE IF e.text = "\"Custom\":1" THEN Rewritten(isFree)
    ELSE IF e.ie = "absent" THEN Error("TypeError")
    ELSE IF e.ie = "Custom1" THEN Rewritten(isFree)
    ELSE IF e.ie # "absent" THEN [type |-> "Program Error", payload |-> e]
    ELSE Rethrown(e)

SendRejected(e) ==
    /\ pPc = "sendAndConfirmWithRetry"
    /\ e \in Failures(sent[Len(sent)])
    /\ sendFailure' = e
    /\ pError' = Classify(e, data.isFree)
    /\ sent' = SentAfterFailure(sent, SignedTxns)
    /\ pPc' = AfterThrow(pPc)
    /\ UNCHANGED <<pCtx, pKind, payments, buildCalls, completed, txns, data,
                   recipientExists, gateRequests, decision, signCalls,
                   dispatches, rvars, evars>>

PipelineNext ==
    \/ \E kind \in Kinds, ctx \in Contexts, n \in 0..MaxPayees :
          Submit(kind, ctx, [k \in 1..n |-> k])
    \/ \E c \in 1..CeilDiv(MaxPayees, ChunkSize) : TransferTokenResolved(c)
    \/ TransferTokensJoined
    \/ \E exists \in BOOLEAN : GetAccountInfoResolved(exists)
    \/ BuildResolved
    \/ \E n \in 0..MaxTxns, defined \in BOOLEAN, isFree \in BOOLEAN :
          (defined \/ n = 0) /\ GetAssertDataResolved(n, defined, isFree)
    \/ CallRejected
    \/ \E approved \in BOOLEAN : ShowResolved(approved)
    \/ DispatchSettled
    \/ SignAllTransactionsResolved
    \/ SendResolved
    \/ \E at \in 1..MaxTxns : \E e \in Failures(at) : SendRejected(e)

\* ================================================ the memo of a payment
\* A string is the sequence of its code points; a base64 string is the
\* sequence of its digits (0..63) and Pad.  What may be undefined is a record.
MEMO_MAX_BYTES == 8

MaxMemoChars == 4

\* One character of each UTF-8 length: A, e-acute, the euro sign, an emoji.
CodePoints == {65, 233, 8364, 128512}

Replacement == 65533

Pad == 64

Undefined == [defined |-> FALSE, chars |-> <<>>]

Str(chars) == [defined |-> TRUE, chars |-> chars]

Utf8(cp) ==
    IF cp < 128 THEN <<cp>>
    ELSE IF cp < 2048 THEN <<192 + (cp \div 64), 128 + (cp % 64)>>
    ELSE IF cp < 65536
         THEN <<224 + (cp \div 4096), 128 + ((cp \div 64) % 64), 128 + (cp % 64)>>
         ELSE <<240 + (cp \div 262144), 128 + ((cp \div 4096) % 64),
                128 + ((cp \div 64) % 64), 128 + (cp % 64)>>

\* Buffer.from(text, 'utf8')
RECURSIVE Utf8Encode(_)
Utf8Encode(text) ==
    IF text = <<>> THEN <<>> ELSE Utf8(Head(text)) \o Utf8Encode(Tail(text))

\* buff.toString('base64')
RECURSIVE Base64Encode(_)
Base64Encode(bytes) ==
    IF bytes = <<>> THEN <<>>
    ELSE IF Len(bytes) = 1
         THEN <<bytes[1] \div 4, (bytes[1] % 4) * 16, Pad, Pad>>
    ELSE IF Len(bytes) = 2
         THEN <<bytes[1] \div 4, (bytes[1] % 4) * 16 + (bytes[2] \div 16),
                (bytes[2] % 16) * 4, Pad>>
    ELSE <<bytes[1] \div 4, (bytes[1] % 4) * 16 + (bytes[2] \div 16),
           (bytes[2] % 16) * 4 + (bytes[3] \div 64), bytes[3] % 64>>
         \o Base64Encode(SubSeq(bytes, 4, Len(bytes)))

\* Buffer.from(base64String, 'base64')
RECURSIVE Base64Decode(_)
Base64Decode(chars) ==
    IF Len(chars) < 4 THEN <<>>
    ELSE LET byte1 == chars[1] * 4 + (chars[2] \div 16)
             byte2 == (chars[2] % 16) * 16 + (chars[3] \div 4)
             byte3 == (chars[3] % 4) * 64 + chars[4]
         IN  (IF chars[3] = Pad THEN <<byte1>>
              ELSE IF chars[4] = Pad THEN <<byte1, byte2>>
              ELSE <<byte1, byte2, byte3>>)
             \o Base64Decode(SubSeq(chars, 5, Len(chars)))

Latin1Decode(bytes) == bytes

\* buff.toString('utf8'): an ill-formed sequence reads as U+FFFD
RECURSIVE Utf8Decode(_)
Utf8Decode(bytes) ==
    IF bytes = <<>> THEN <<>>
    ELSE LET b == bytes[1]
             n == IF b < 192 THEN 1 ELSE IF b < 224 THEN 2
                  ELSE IF b < 240 THEN 3 ELSE 4
             low(i) == bytes[i] - 128
             cp == IF n = 1 THEN b
                   ELSE IF n = 2 THEN (b - 192) * 64 + low(2)
                   ELSE IF n = 3 THEN (b - 224) * 4096 + low(2) * 64 + low(3)
                   ELSE (b - 240) * 262144 + low(2) * 4096 + low(3) * 64 + low(4)
         IN  IF n > Len(bytes) THEN <<Replacement>>
             ELSE IF b \in 128..191
                  THEN <<Replacement>> \o Utf8Decode(Tail(bytes))
                  ELSE <<cp>> \o Utf8Decode(SubSeq(bytes, n + 1, Len(bytes)))

encodeMemoString(utf8Input) ==
    IF utf8Input = <<>> THEN Undefined
    ELSE Str(Base64Encode(Utf8Encode(utf8Input)))

decodeMemoString(base64String) ==
    IF ~base64String.defined \/ base64String.chars = <<>> THEN <<>>
    ELSE Utf8Decode(Base64Decode(base64String.chars))

getMemoBytesLeft(base64Memo) ==
    IF ~base64Memo.defined \/ base64Memo.chars = <<>>
    THEN [valid |-> TRUE, bytesUsed |-> 0]
    ELSE LET size == Len(Base64Decode(base64Memo.chars))
         IN  [valid |-> size <= MEMO_MAX_BYTES, bytesUsed |-> size]

MemoIdle ==
    /\ memoText = <<>>
    /\ memoEncoded = Undefined
    /\ memoDecoded = <<>>
    /\ memoPc = "edit"

\* MemoInput: the field hands every edit to onChangeText, over the limit too
\* (the counter only turns red).
ChangeText(cp) ==
    /\ memoPc = "edit"
    /\ Len(memoText) < MaxMemoChars
    /\ memoText' = Append(memoText, cp)
    /\ UNCHANGED <<memoEncoded, memoDecoded, memoPc, closure, rvars, pvars>>

EncodeMemo ==
    /\ memoPc = "edit"
    /\ memoEncoded' = encodeMemoString(memoText)
    /\ memoPc' = "encoded"
    /\ UNCHANGED <<memoText, memoDecoded, closure, rvars, pvars>>

DecodeMemo ==
    /\ memoPc = "encoded"
    /\ memoDecoded' = decodeMemoString(memoEncoded)
    /\ memoPc' = "decoded"
    /\ UNCHANGED <<memoText, memoEncoded, closure, rvars, pvars>>

\* Where no call is made from a stale render and no memo is typed.
EnvIdle == MemoIdle /\ closure = <<>>

\* ====================================================================== specs
Init == RegistryInit /\ PipelineIdle /\ EnvIdle

\* The UI serialises the calls it makes (one callback at a time); the restore
\* and the bootstrap effect run beside them.
Next ==
    \/ NoCallInFlight /\ \E alias \in Aliases, address \in Addresses, secure \in BOOLEAN :
                            UpsertAccountCall(alias, address, secure)
    \/ NoCallInFlight /\ \E address \in OptAddresses : UpdateDefaultCall(address)
    \/ NoCallInFlight /\ \E alias \in Aliases, address \in Addresses :
                            SignOutCall(MkAccount(alias, address))
    \/ NoCallInFlight /\ SignOutAllCall
    \/ RegistryStep

Spec == Init /\ [][Next]_vars

\* Calls are made while earlier ones are still suspended.
NextConcurrent ==
    \/ RegistryCall
    \/ RegistryStep

SpecConcurrent == Init /\ [][NextConcurrent]_vars

\* The submission pipeline beside a registry that is left alone.
RegistryAtRest ==
    /\ RegistryInit
    /\ remoteAccounts = <<>>
    /\ remoteDefault = None

InitPipeline == RegistryAtRest /\ PipelineIdle /\ EnvIdle

SpecPipeline == InitPipeline /\ [][PipelineNext]_vars

\* The same under the proviso that the gate and every call the callback
\* awaits settle: a suspended invocation is resumed.
PipelineSettles ==
    \/ \E c \in 1..CeilDiv(MaxPayees, ChunkSize) : TransferTokenResolved(c)
    \/ TransferTokensJoined
    \/ \E exists \in BOOLEAN : GetAccountInfoResolved(exists)
    \/ BuildResolved
    \/ \E n \in 0..MaxTxns, defined \in BOOLEAN, isFree \in BOOLEAN :
          (defined \/ n = 0) /\ GetAssertDataResolved(n, defined, isFree)
    \/ CallRejected
    \/ \E approved \in BOOLEAN : ShowResolved(approved)
    \/ DispatchSettled
    \/ SignAllTransactionsResolved
    \/ SendResolved
    \/ \E at \in 1..MaxTxns : \E e \in Failures(at) : SendRejected(e)

SpecPipelineFair ==
    InitPipeline /\ [][PipelineNext]_vars /\ WF_vars(PipelineSettles)

\* The contact callbacks of a restored registry, called one at a time.
RegistryReady ==
    /\ accounts = <<>>
    /\ accountsDefined = TRUE
    /\ currentAccount = NoAccount
    /\ contacts \in InitContactLists
    /\ defaultAccountAddress = None
    /\ restorePc = "done"
    /\ effects = EmptyBag
    /\ ops = [i \in OpSlots |-> IdleOp]
    /\ remoteAccounts = <<>>
    /\ remoteContacts = contacts
    /\ remoteDefault = None
    /\ secureKeys = {}
    /\ tags = {}
    /\ loggerUser = None
    /\ failures = 0
    /\ calls = 0
    /\ lastOp = NoOp

InitContacts == RegistryReady /\ PipelineIdle /\ EnvIdle

NextContacts ==
    \/ NoCallInFlight /\ \E account \in Contacts : AddContactCall(account)
    \/ NoCallInFlight /\ \E oldAddress \in Addresses, updatedAccount \in Contacts :
                            EditContactCall(oldAddress, updatedAccount)
    \/ NoCallInFlight /\ \E address \in Addresses : DeleteContactCall(address)
    \/ \E i \in OpSlots : ContactsResolved(i)
    \/ \E i \in OpSlots : AwaitRejected(i)

SpecContacts == InitContacts /\ [][NextContacts]_vars

\* The memo field beside a registry and a pipeline that are left alone.
NextMemo ==
    \/ \E cp \in CodePoints : ChangeText(cp)
    \/ EncodeMemo
    \/ DecodeMemo

SpecMemo == InitPipeline /\ [][NextMemo]_vars

\* A component holding the upsertAccount of the render it last saw: it is
\* rendered again some time after `accounts` changes, and until then its
\* upsertAccount closes over the map of that earlier render.
Render ==
    /\ closure # HookAccounts
    /\ closure' = HookAccounts
    /\ UNCHANGED <<memoText, memoEncoded, memoDecoded, memoPc, rvars, pvars>>

InitRace == RegistryReady /\ PipelineIdle /\ MemoIdle /\ closure = accounts

NextRace ==
    \/ Render
    \/ \E alias \in Aliases, address \in Addresses, secure \in BOOLEAN :
          UpsertAccountFrom(closure, alias, address, secure)
    \/ \E i \in OpSlots : UpsertCloudResolved(i)
    \/ \E i \in OpSlots : UpsertTagResolved(i)
    \/ \E i \in OpSlots : UpsertStoreResolved(i)
    \/ \E i \in OpSlots : AwaitRejected(i)
    \/ \E run \in BagToSet(effects) : EffectGetResolved(run)
    \/ \E run \in BagToSet(effects) : EffectSetResolved(run)
    \/ \E run \in BagToSet(effects) : EffectRejected(run)

SpecRace == InitRace /\ [][NextRace]_vars


\* ===================================================================== claims
Restored == accountsDefined
ValidDefault ==
    defaultAccountAddress = None \/ HasKey(HookAccounts, defaultAccountAddress)
\* nothing the registry started is still running
Settled ==
    /\ NoCallInFlight
    /\ effects = EmptyBag
    /\ restorePc # "restoreAccounts"
\* call i ends in this step
Ends(i, kind) == ops[i].kind = kind /\ ops'[i].kind = "idle"

\* C1: a full sign-out (signOut with no account) ends with an empty accounts
\* map, an empty contacts list and no current account, also when one of the
\* calls handed to Promise.all was rejected.
C1_FullSignOutClearsMemory ==
    [][\A i \in OpSlots :
          Ends(i, "signOutAll") =>
              /\ accounts' = <<>>
              /\ contacts' = <<>>
              /\ currentAccount' = NoAccount]_vars

\* C2: signOut(A) for an address that is no key of the accounts map is a
\* no-op: no step of the call changes the in-memory or the remote accounts
\* map, and the call never awaits removeAccountTag or deleteSecureAccount.
C2_AbsentSignOutIsNoOp ==
    [][\A i \in OpSlots :
          (/\ Restored
           /\ ops'[i] # ops[i]
           /\ \/ ops[i].kind = "signOut" /\ ~ops[i].present
              \/ ops'[i].kind = "signOut" /\ ~ops'[i].present)
          => /\ accounts' = accounts
             /\ remoteAccounts' = remoteAccounts
             /\ ops'[i].pc \notin {"removeAccountTag", "deleteSecureAccount"}]_vars

\* C3: once the Approval Gate has resolved to rejection, the callback has
\* thrown the user-rejection error, nothing was dispatched, signed or sent,
\* and the registry is as it was.
C3_RejectionAborts ==
    decision = "rejected" =>
        /\ pPc = "done"
        /\ pError = UserRejected
        /\ dispatches = <<>>
        /\ signCalls = 0
        /\ sent = <<>>
        /\ RegistryAtRest
C3_Witness ==
    /\ decision = "rejected"
    /\ pKind = "UpdateEntityInfo"
    /\ Len(txns) >= 2

\* C4: whatever the intent kind, a dispatch, a signing or a send happens only
\* after the Approval Gate was shown for the invocation and approved.
C4_DispatchOnlyAfterApproval ==
    (dispatches # <<>> \/ signCalls > 0 \/ sent # <<>>) =>
        (gateRequests # <<>> /\ decision = "approved")

\* C5: once restored, defaultAccountAddress is unset or a key of the accounts
\* map, in every reachable state.
C5_DefaultIsAnAccount == Restored => ValidDefault

C7_ClearedDefaultIsReselected ==
    (/\ lastOp.kind = "updateDefaultAccountAddress"
     /\ lastOp.address = None
     /\ lastOp.result = "ok"
     /\ Restored /\ accounts # <<>>
     /\ Settled)
    => (defaultAccountAddress # None /\ ValidDefault)

\* the classification sections 4.2 and 7 of the specification give a failed
\* send: the rewritten message for the insufficient-balance signature, a
\* program error with the payload for another InstructionError, and the
\* error itself otherwise
Classified(e, isFree) ==
    IF e.text \in {"Insufficient Balance", "\"Custom\":1"} \/ e.ie = "Custom1"
    THEN Rewritten(isFree)
    ELSE IF e.ie # "absent" THEN [type |-> "Program Error", payload |-> e]
    ELSE Rethrown(e)

SendFailed == pKind = "UpdateEntityInfo" /\ sendFailure # NoFailure

\* C8: when the send of transaction k fails, no later transaction is sent
\* and the error thrown is the classification of transaction k's failure.
C8_FailFastWithItsError ==
    SendFailed =>
        /\ pPc = "done"
        /\ sent = SubSeq(SignedTxns, 1, sendFailure.at)
        /\ pError = Classified(sendFailure, data.isFree)

\* C9: a send failure with none of the known signatures (no 'Insufficient
\* Balance' text, no '"Custom":1' text, no InstructionError field) is thrown
\* on to the caller as the same error value.
C9_UnknownFailureRethrown ==
    (SendFailed /\ sendFailure.text = "none" /\ sendFailure.ie = "absent") =>
        pError = Rethrown(sendFailure)

\* C10: submitPayment with N payees makes ceil(N/5) transferToken calls, one
\* per consecutive chunk of at most 5 payees in input order, and the
\* transactions shown to the Approval Gate and dispatched are in chunk order,
\* whatever order the builds completed in.
RECURSIVE Flatten(_)
Flatten(seqs) == IF seqs = <<>> THEN <<>> ELSE Head(seqs) \o Flatten(Tail(seqs))

C10_PaymentChunksInOrder ==
    (pKind = "Payment" /\ pError # AccountError) =>
        /\ Len(buildCalls) = CeilDiv(Len(payments), ChunkSize)
        /\ \A c \in DOMAIN buildCalls :
              Len(buildCalls[c]) >= 1 /\ Len(buildCalls[c]) <= ChunkSize
        /\ Flatten(buildCalls) = payments
        /\ gateRequests # <<>> =>
              DeserializeAll(gateRequests[1].serializedTxs) = buildCalls
        /\ dispatches # <<>> => dispatches[1].txns = buildCalls
C10_Witness ==
    /\ pKind = "Payment"
    /\ Len(buildCalls) >= 3
    /\ dispatches # <<>>
    /\ Head(completed) = 3

\* the awaits and calls a submit* callback has made so far
NothingStarted ==
    /\ pPc = "done"
    /\ buildCalls = <<>>
    /\ txns = <<>>
    /\ gateRequests = <<>>
    /\ signCalls = 0
    /\ sent = <<>>
    /\ dispatches = <<>>

\* C11: a submit* callback called while the current account, the
\* anchorProvider or the Approval Gate is missing has thrown the
\* account-context error and has made no builder call, lookup, gate request
\* or dispatch.
C11_MissingContextFailsFast ==
    (/\ pKind # "none"
     /\ \/ ~pCtx.currentAccount
        \/ ~pCtx.anchorProvider
        \/ ~pCtx.walletSignBottomSheetRef)
    => (pError = AccountError /\ NothingStarted)

\* C12: when upsertAccount was given secure material and storeSecureAccount
\* rejects, the call ends rejected with that failure; and a call given
\* secure material that returns normally has written it to the SecureKeyStore.
C12_SecureWriteFailureSurfaces ==
    [][\A i \in OpSlots :
          (Ends(i, "upsertAccount") /\ ops[i].secure) =>
              /\ (ops[i].pc = "storeSecureAccount" /\ failures' > failures)
                    => lastOp'.result = "storeSecureAccount"
              /\ lastOp'.result = "ok"
                    => /\ ops[i].pc = "storeSecureAccount"
                       /\ ops[i].account.address \in secureKeys']_vars
C12_Witness ==
    /\ lastOp.kind = "upsertAccount"
    /\ lastOp.result = "storeSecureAccount"
    /\ lastOp.address \notin secureKeys
    /\ HasKey(accounts, lastOp.address)

\* C13: the contacts list holds at most one entry per address, whatever
\* addContact, editContact and deleteContact calls were made.
C13_ContactsUniqueByAddress ==
    \A j, k \in DOMAIN contacts :
        j # k => contacts[j].address # contacts[k].address

\* C14: when an addContact call for an address completes after a completed
\* addContact call for the same address, the contacts list holds exactly one
\* contact with that address, it is the account of the second call, and the
\* remote contacts write carried the same list.
C14_AddContactTwiceKeepsLast ==
    [][\A i \in OpSlots :
          (Ends(i, "addContact") /\ lastOp'.result = "ok" /\ Repeats(ops[i])) =>
              /\ Cardinality({k \in DOMAIN contacts' :
                      contacts'[k].address = ops[i].account.address}) = 1
              /\ \E k \in DOMAIN contacts' : contacts'[k] = ops[i].account
              /\ remoteContacts' = contacts']_vars
C14_Witness ==
    /\ lastOp.kind = "addContact" /\ lastOp.result = "ok" /\ lastOp.repeats
    /\ \E k \in DOMAIN contacts :
          contacts[k].address = lastOp.address /\ contacts[k].alias = "w2"
    /\ Len(contacts) = 2
    /\ remoteContacts = contacts

\* C15: a callback called while the registry is not restored takes no
\* effect: the call changes no state cell and no store and returns at once,
\* leaving nothing suspended that could write later.
C15_NoEffectBeforeReady ==
    [][(~Restored /\ calls' # calls) =>
          /\ memory' = memory
          /\ stores' = stores
          /\ \A i \in OpSlots : ops'[i].kind = "idle"]_vars

\* C16: once restoreAccounts() has failed, the registry is READY with an
\* empty snapshot: restored is true, accounts and contacts are empty and
\* there is no current account (as long as no callback was called).
C16_FailedRestoreStillReady ==
    (restorePc = "failed" /\ calls = 0) =>
        /\ Restored
        /\ accounts = <<>>
        /\ contacts = <<>>
        /\ currentAccount = NoAccount

\* C17: updateDefaultAccountAddress changes the in-memory default only in
\* the step in which its remote write has succeeded: that step leaves the
\* remote default, the in-memory default and the telemetry identity all at
\* the address given; the call itself and a failed remote write leave the
\* in-memory default and the telemetry identity unchanged.
C17_DefaultWrittenThrough ==
    [][\A i \in OpSlots :
          LET kind == "updateDefaultAccountAddress"
              op == IF ops[i].kind = kind THEN ops[i] ELSE ops'[i]
          IN (ops'[i] # ops[i] /\ op.kind = kind) =>
                IF Ends(i, kind) /\ lastOp'.result = "ok"
                THEN /\ remoteDefault' = op.account.address
                     /\ defaultAccountAddress' = op.account.address
                     /\ loggerUser' = op.account.address
                ELSE /\ defaultAccountAddress' = defaultAccountAddress
                     /\ loggerUser' = loggerUser
                     /\ remoteDefault' = remoteDefault]_vars
C17_Witness ==
    /\ lastOp.kind = "updateDefaultAccountAddress"
    /\ lastOp.result = "ok"
    /\ lastOp.address = "a2"
    /\ remoteDefault = "a2" /\ defaultAccountAddress = "a2" /\ loggerUser = "a2"
    /\ failures = 0

\* C18: the account an upsertAccount call writes has the net type derived
\* from its address: it is the entry the call puts in the accounts map under
\* that address, makes current, and hands to updateCloudAccounts.
C18_UpsertDerivesNetType ==
    [][\A i \in OpSlots :
          (ops[i].kind = "idle" /\ ops'[i].kind = "upsertAccount") =>
              LET a == ops'[i].account
              IN /\ a.netType = accountNetType(a.address)
                 /\ \A k \in DOMAIN accounts' :
                       accounts'[k].address = a.address => accounts'[k] = a
                 /\ HasKey(accounts', a.address)
                 /\ currentAccount' = a
                 /\ ops'[i].next = accounts']_vars
C18_Witness ==
    /\ lastOp.kind = "upsertAccount" /\ lastOp.result = "ok"
    /\ lastOp.address = "a2"
    /\ \E k \in DOMAIN accounts :
          accounts[k].address = "a2" /\ accounts[k].netType = "TESTNET"
    /\ \E k \in DOMAIN remoteAccounts :
          remoteAccounts[k].address = "a2" /\ remoteAccounts[k].netType = "TESTNET"

\* the insufficient-balance signature of a send failure
InsufficientBalance(e) ==
    \/ e.text = "Insufficient Balance"
    \/ e.text = "\"Custom\":1"
    \/ e.ie = "Custom1"

\* C19: a send failure with the insufficient-balance signature is thrown as
\* the manufacturer-underfunded message when the assert data is free and as
\* the user insufficient-balance message otherwise; a failure with an
\* InstructionError and no such signature is thrown as a program error
\* holding the failure.
C19_SendFailureRewritten ==
    SendFailed =>
        /\ InsufficientBalance(sendFailure) =>
              pError.type =
                 IF data.isFree
                 THEN "Manufacturer does not have enough SOL or Data Credits to assert location"
                 ELSE "Insufficient balance of either HNT, Data Credits, or Sol to assert location"
        /\ (~InsufficientBalance(sendFailure) /\ sendFailure.ie # "absent") =>
              /\ pError.type = "Program Error"
              /\ pError.payload = sendFailure
C19_Witness ==
    /\ SendFailed
    /\ data.isFree
    /\ sendFailure.text = "none" /\ sendFailure.ie = "Custom1"
    /\ sendFailure.at = 2
    /\ pError.type = "Manufacturer does not have enough SOL or Data Credits to assert location"

\* C20: in submitTreasurySwap and submitMintDataCredits no Approval Gate
\* request exists or is made while the recipient lookup is pending; the
\* request is made after the lookup resolved, and it carries the
\* recipient-does-not-exist warning exactly when the lookup found no account.
C20_LookupBeforeGate ==
    [][(pKind' \in LooksUp) =>
          ( /\ (pPc' = "getAccountInfo") => (gateRequests' = <<>>)
            /\ (gateRequests' # gateRequests /\ gateRequests' # <<>>) =>
                   ( /\ pKind = pKind'
                     /\ pPc = "build"
                     /\ Len(gateRequests') = 1
                     /\ gateRequests'[1].warning =
                           (IF recipientExists THEN ""
                            ELSE "transactions.recipientNonExistent") ) )
      ]_vars
C20_Witness ==
    /\ pKind = "MintDataCredits"
    /\ ~recipientExists
    /\ gateRequests # <<>>
    /\ gateRequests[1].warning = "transactions.recipientNonExistent"
    /\ decision = "approved"

\* C21: a memo text of at most MEMO_MAX_BYTES bytes of UTF-8, the empty text
\* included, comes back unchanged from decodeMemoString(encodeMemoString(x)).
C21_MemoRoundTrip ==
    (memoPc = "decoded" /\ Len(Utf8Encode(memoText)) <= MEMO_MAX_BYTES)
        => memoDecoded = memoText

C21_Witness ==
    /\ memoPc = "decoded"
    /\ memoText = <<128512, 8364, 65>>
    /\ Len(Utf8Encode(memoText)) = MEMO_MAX_BYTES
    /\ memoDecoded = memoText

\* C22: in the full sign-out every cleanup call is issued, whichever of them
\* fails: when the Promise.all settles with at most one rejection, no key of
\* the map is left in the SecureKeyStore (a delete and a sign-out were issued
\* for each) and at most the one effect of the rejected call is missing among
\* the tags, the remote accounts and the default.
C22_AllCleanupIssued ==
    [][\A i \in OpSlots :
         (ops[i].kind = "signOutAll" /\ ops'[i] = IdleOp
              /\ failures' - failures <= 1)
         => LET keys == Keys(ops[i].next)
            IN  /\ secureKeys' \cap keys = {}
                /\ Cardinality(tags' \cap keys)
                     + (IF remoteAccounts' # <<>> THEN 1 ELSE 0)
                     + (IF defaultAccountAddress' # None THEN 1 ELSE 0)
                   <= failures' - failures]_vars

C22_Witness ==
    /\ lastOp.kind = "signOutAll"
    /\ lastOp.result = "Promise.all"
    /\ Cardinality(Keys(accounts)) = 2
    /\ Cardinality(tags \cap Keys(accounts)) = 1
    /\ secureKeys = {}
    /\ remoteAccounts = <<>>
    /\ defaultAccountAddress = None

\* C23: one upsertAccount goes memory, remote write, secure write.  The step
\* that starts it puts the account in the in-memory map and makes it current
\* without touching a store; its remote write comes later, in a step that
\* writes neither memory nor the SecureKeyStore; its secure write lands after
\* its remote write; and, the
\* restore being over, the account stays in memory while the call runs and
\* when one of its awaits rejects.
C23_UpsertOrder ==
    [][\A i \in OpSlots :
         /\ (ops[i] = IdleOp /\ ops'[i].kind = "upsertAccount")
            => /\ HasKey(accounts', ops'[i].account.address)
               /\ currentAccount' = ops'[i].account
               /\ ops'[i].pc = "updateCloudAccounts"
               /\ stores' = stores
         /\ (ops[i].kind = "upsertAccount" /\ remoteAccounts' # remoteAccounts)
            => /\ HasKey(remoteAccounts', ops[i].account.address)
               /\ secureKeys' = secureKeys
               /\ memory' = memory
         /\ (ops[i].kind = "upsertAccount" /\ secureKeys' # secureKeys)
            => HasKey(remoteAccounts, ops[i].account.address)
         /\ (ops[i].kind = "upsertAccount" /\ restorePc # "restoreAccounts"
                 /\ HasKey(accounts, ops[i].account.address))
            => /\ HasKey(accounts', ops[i].account.address)
               /\ (ops'[i] = IdleOp /\ failures' # failures)
                  => memory' = memory]_vars

C23_Witness ==
    /\ restorePc = "done"
    /\ lastOp.kind = "upsertAccount"
    /\ lastOp.result = "updateCloudAccounts"
    /\ HasKey(accounts, lastOp.address)
    /\ currentAccount.address = lastOp.address
    /\ ~HasKey(remoteAccounts, lastOp.address)
    /\ lastOp.address \notin secureKeys

\* C24: a routing-tag failure is off the critical path: an upsertAccount given
\* secure material does not end at its tagAccount without the material being
\* in the SecureKeyStore, and a single signOut of a present account does not
\* end at its removeAccountTag without the account being gone from the
\* SecureKeyStore and from the accounts map.
C24_TagFailureOffCriticalPath ==
    [][\A i \in OpSlots :
         /\ (ops[i].kind = "upsertAccount" /\ ops[i].secure
                 /\ ops[i].pc = "tagAccount" /\ ops'[i] = IdleOp)
            => ops[i].account.address \in secureKeys'
         /\ (ops[i].kind = "signOut" /\ ops[i].present
                 /\ ops[i].pc = "removeAccountTag" /\ ops'[i] = IdleOp)
            => /\ ops[i].account.address \notin secureKeys'
               /\ ~HasKey(accounts', ops[i].account.address)]_vars

\* C25: the signed transactions of an entity-info update are sent strictly in
\* batch order with at most one send in flight: `sent` grows by one
\* transaction at a time, always the next of the batch, and only in a step in
\* which the call before it (the signing or the previous send) has resolved.
C25_SendsSequential ==
    [][(sent' # sent /\ sent' # <<>>)
       => /\ Len(sent') = Len(sent) + 1
          /\ SubSeq(sent', 1, Len(sent)) = sent
          /\ sent' = SubSeq(SignedTxns', 1, Len(sent'))
          /\ pPc \in {"signAllTransactions", "sendAndConfirmWithRetry"}
          /\ pPc' = "sendAndConfirmWithRetry"
          /\ sendFailure' = NoFailure]_vars

C25_Witness ==
    /\ pKind = "UpdateEntityInfo"
    /\ pPc = "done"
    /\ pError = NoError
    /\ Len(sent) = MaxTxns
    /\ sent = SignedTxns

\* C26: after the restore the default address is read from the remote store
\* at most once: with a non-empty map restored or upserted (the bootstrap has
\* made its read), a step of a registry callback starts no further
\* getCloudDefaultAccountAddress().
C26_DefaultReadOnce ==
    [][(restorePc = "done" /\ accounts # <<>> /\ ops' # ops)
       => \A address \in Addresses :
            LET read == EffectRun("getCloudDefaultAccountAddress", address)
            IN  CopiesIn(read, effects') <= CopiesIn(read, effects)]_vars

\* C27: of two upsertAccount calls for distinct addresses in flight at once,
\* neither update is lost: both accounts are in the in-memory map, and the
\* map written to the remote store by the later of the two holds both.
C27_ConcurrentUpsertsKept ==
    \A i, j \in OpSlots :
        (/\ i # j
         /\ ops[i].kind = "upsertAccount" /\ ops[j].kind = "upsertAccount"
         /\ ops[i].account.address # ops[j].account.address)
        => /\ HasKey(accounts, ops[i].account.address)
           /\ HasKey(accounts, ops[j].account.address)
           /\ \/ HasKey(ops[i].next, ops[j].account.address)
              \/ HasKey(ops[j].next, ops[i].account.address)

\* C28: a single signOut(A) deletes A's key and removes A from the maps as a
\* pair: once the call has returned or its remote write has rejected, and no
\* call is in flight, A's key is gone from the SecureKeyStore exactly when A is
\* gone from the in-memory and the remote accounts map.
C28_KeyAndAccountPaired ==
    (/\ NoCallInFlight
     /\ restorePc = "done"
     /\ lastOp.kind = "signOut"
     /\ lastOp.result \in {"ok", "updateCloudAccounts"})
    => (lastOp.address \notin secureKeys
          <=> (/\ ~HasKey(accounts, lastOp.address)
               /\ ~HasKey(remoteAccounts, lastOp.address)))

\* C29: when the gate and every awaited call settle, every invocation of a
\* submit* callback terminates: one that has started is eventually over,
\* whether it returned or threw, and none stays suspended after a rejection.
C29_InvocationTerminates == (pPc # "idle") ~> (pPc = "done")

C29_Witness ==
    /\ pKind = "UpdateEntityInfo"
    /\ pPc = "done"
    /\ decision = "approved"
    /\ Len(sent) = 2
    /\ sendFailure # NoFailure
    /\ pError # NoError
====
